---- MODULE Spec2Model ----
(***************************************************************************)
(* Model of the wiz-ai repository.                                         *)
(*                                                                         *)
(* Part 1: the installation-assistant graph                                *)
(*   src/wiz_ai/agents/hummingbot_installation/installation_assistant.py   *)
(*   (nodes retrieve_documents, analyze_conversation, generate_response    *)
(*   and the edges between them).                                          *)
(* Part 2: the knowledge-base reindex loop                                 *)
(*   src/notion_to_qdrant.py and src/wiz_ai/models/notion/knowledge_base.py*)
(*   run by one invocation of the script, or by two at the same time.      *)
(* Part 3: the Discord bot, src/discord_agent.py (on_message and the       *)
(*   conversation manager).                                                *)
(* Part 4: the segmenter, KnowledgeBaseDocument.to_vector_documents,       *)
(*   applied to one document after another.                                *)
(* Part 5: ChunkingMixin.chunk_text, src/wiz_ai/models/base/documents.py,  *)
(*   applied to one text after another.                                    *)
(* Part 6: the article crawler, src/wiz_ai/crawlers/generic_article.py,    *)
(*   over the document store of src/wiz_ai/models/base/nosql_base.py,      *)
(*   called by two callers at the same time.                               *)
(* Part 7: the patient analyzer,                                           *)
(*   src/wiz_ai/medical-assistant/studio/patient_analyzer.py, processing   *)
(*   one review after another.                                             *)
(***************************************************************************)
EXTENDS Integers, Sequences, FiniteSets, TLC

VARIABLES
    \* ---- installation-assistant graph: the State channels ----
    pc,                            \* node the graph runtime executes next
    messages,                      \* State.messages
    summary,                       \* State.summary
    retrieved_docs,                \* State.retrieved_docs
    iteration_count,               \* State.iteration_count
    conversation_state,            \* State.conversation_state
    detected_installation_method,  \* State.detected_installation_method
    detected_os,                   \* State.detected_os
    needs_support_escalation,      \* State.needs_support_escalation
    docs,                          \* retrieve_documents: local `docs` of the last search
    result,                        \* analyze_conversation: local `result` of the last analysis
    \* ---- knowledge-base reindex (notion_to_qdrant.py) ----
    store,        \* the points of the knowledge_base collection
    uuid4_next,   \* the next value uuid.uuid4 hands out
    version,      \* the version of page "n1" the Notion database holds
    batch,        \* process_knowledge_base_docs: local `docs`, per invocation
    idx,          \* position of the loop `for doc in docs`, per invocation
    rpc,          \* statement of the loop body executed next, per invocation
    vector_docs,  \* process_knowledge_base_docs: local `vector_docs`, per invocation
    runs,         \* number of runs of the script so far
    log,          \* what the loop logged with logfire for each document, per invocation
    \* ---- the Discord bot (discord_agent.py) ----
    channel_conversations,  \* ConversationManager.channel_conversations
    handled,                \* the on_message calls so far and how each ended
    \* ---- the segmenter applied to one document ----
    seg_pc,          \* "input", "loaded" or "done"
    seg_doc,         \* the KnowledgeBaseDocument (title, summary, content)
    seg_chunk_size,  \* to_vector_documents: chunk_size
    seg_chunks,      \* to_vector_documents: the chunk texts, in order
    \* ---- ChunkingMixin.chunk_text applied to one text ----
    ct_pc,                   \* "input", "loop" or "done"
    text_split_by_sections,  \* chunk_text: the sections of the text
    section_idx,             \* position of the loop `for section in text_split_by_sections`
    chunks_by_tokens,        \* chunk_text: the chunks collected so far
    resplit,                 \* positions of the sections handed to token_splitter.split_text
    \* ---- the article crawler over the document store (crawlers/generic_article.py) ----
    articles,     \* the documents of the GenericArticle collection
    users,        \* the documents of the UserDocument collection
    uuid4_mongo,  \* the next value uuid.uuid4 hands out to a new document
    xpc,          \* per caller: the await of extract its call is at, or "idle"
    xlink,        \* per caller: extract's argument `link`
    xuser,        \* per caller: extract's local `user` (the empty set is None)
    xret,         \* per caller: how its last call of extract ended
    calls,        \* number of calls of extract so far
    read_failed,  \* a find of extract met an OperationFailure and answered None
    \* ---- the patient analyzer (medical-assistant/studio/patient_analyzer.py) ----
    pa_pc,                  \* node of the analyzer graph executed next, or "idle"
    revision_actual,        \* Estado.revision_actual
    revisiones_historicas,  \* Estado.revisiones_historicas
    eventos_adversos,       \* Estado.eventos_adversos
    nivel_riesgo,           \* Estado.nivel_riesgo
    resumen_evolucion,      \* Estado.resumen_evolucion
    resultado_formateado,   \* Estado.resultado_formateado
    estado_actual,          \* what the last procesar_nueva_revision returned ({} is None)
    revisiones              \* the reviews handed to procesar_nueva_revision so far

graphVars == <<pc, messages, summary, retrieved_docs, iteration_count,
               conversation_state, detected_installation_method, detected_os,
               needs_support_escalation, docs, result>>

reindexVars == <<store, uuid4_next, version, batch, idx, rpc, vector_docs, runs, log>>

discordVars == <<channel_conversations, handled>>

segmentVars == <<seg_pc, seg_doc, seg_chunk_size, seg_chunks>>

chunkTextVars == <<ct_pc, text_split_by_sections, section_idx, chunks_by_tokens, resplit>>

crawlVars == <<articles, users, uuid4_mongo, xpc, xlink, xuser, xret, calls, read_failed>>

patientVars == <<pa_pc, revision_actual, revisiones_historicas, eventos_adversos,
                 nivel_riesgo, resumen_evolucion, resultado_formateado, estado_actual,
                 revisiones>>

vars == <<graphVars, reindexVars, discordVars, segmentVars, chunkTextVars, crawlVars,
          patientVars>>

\* what the actions of one part leave alone: the variables of the other parts
allButGraph == <<reindexVars, discordVars, segmentVars, chunkTextVars, crawlVars, patientVars>>
allButReindex == <<graphVars, discordVars, segmentVars, chunkTextVars, crawlVars, patientVars>>
allButDiscord == <<graphVars, reindexVars, segmentVars, chunkTextVars, crawlVars, patientVars>>
allButSegment == <<graphVars, reindexVars, discordVars, chunkTextVars, crawlVars, patientVars>>
allButChunkText == <<graphVars, reindexVars, discordVars, segmentVars, crawlVars, patientVars>>
allButCrawl == <<graphVars, reindexVars, discordVars, segmentVars, chunkTextVars, patientVars>>
allButPatient == <<graphVars, reindexVars, discordVars, segmentVars, chunkTextVars, crawlVars>>

-----------------------------------------------------------------------------
\* Bounds of the model

\* user messages one conversation thread receives
MaxUserMessages == 1

\* runs of the ingestion script
MaxRuns == 2
\* to_vector_documents(chunk_size): the default of 1000 characters, scaled down
ChunkSize == 12
\* on_message calls handled by the bot
MaxMessages == 3
\* blocks of a page given to the segmenter
MaxBlocks == 3

\* Program constants
\* the iteration cap of analyze_conversation (the literal 9)
CAP == 9
\* similarity_search(latest_message, k=3)
K == 3
\* to_vector_documents(self, chunk_size: int = 1000)
DefaultChunkSize == 1000

-----------------------------------------------------------------------------
\* Enumerations

ACTIVE == "active"
SOLVED == "solved"
ESCALATED == "escalated"
ConversationState == {ACTIVE, SOLVED, ESCALATED}

InstallationMethod == {"docker", "source", "unknown"}
UserOS == {"windows", "macos", "linux", "unknown"}

Queries == {"q1"}

HumanMessage(q) == [role |-> "human", content |-> q]
AIMessage(c) == [role |-> "ai", content |-> c]

\* the (summary, installation method, OS) readings the model is given to
\* choose from
Readings ==
    {[updated_summary |-> "s1", detected_installation_method |-> "docker",
      detected_os |-> "linux"],
     [updated_summary |-> "s2", detected_installation_method |-> "unknown",
      detected_os |-> "macos"]}

\* what llm.with_structured_output(InstallationAssistantAnalysis) can return
InstallationAssistantAnalysis ==
    {[updated_summary |-> r.updated_summary,
      is_solved |-> s,
      detected_installation_method |-> r.detected_installation_method,
      detected_os |-> r.detected_os,
      needs_support_escalation |-> e] : r \in Readings, s \in BOOLEAN, e \in BOOLEAN}

NoResult == [is_solved |-> FALSE, needs_support_escalation |-> FALSE,
             updated_summary |-> "", detected_installation_method |-> "unknown",
             detected_os |-> "unknown"]

-----------------------------------------------------------------------------
\* The vector store as the retriever sees it. Points 1 and 2 are two chunks of
\* one source document and carry its document_id in their metadata; point 3
\* carries no document_id, so its id falls back to the hash of its content.

Point(i) ==
    [page_content |-> i,
     metadata |-> IF i <= 2 THEN [point |-> i, document_id |-> <<"document", 1>>]
                            ELSE [point |-> i]]

Corpus == {Point(1), Point(2), Point(3)}

\* str(hash(doc.page_content))
HashStr(content) == <<"hash", content>>

\* doc.metadata.get("document_id", str(hash(doc.page_content)))
DocId(doc) ==
    IF "document_id" \in DOMAIN doc.metadata
    THEN doc.metadata.document_id
    ELSE HashStr(doc.page_content)

\* vector_store.similarity_search(latest_message, k=3): at most K distinct
\* points of the collection, in ranking order
SimilaritySearch ==
    {s \in UNION {[1..n -> Corpus] : n \in 0..K} :
        \A i, j \in DOMAIN s : i # j => s[i] # s[j]}

FormatDoc(doc) ==
    [id |-> DocId(doc), content |-> doc.page_content, metadata |-> doc.metadata]

\* already_retrieved_doc_ids = {doc.get("id") for doc in state["retrieved_docs"]}
AlreadyRetrievedDocIds(retrieved) == {retrieved[i].id : i \in DOMAIN retrieved}

\* the filter loop of retrieve_documents: the already-retrieved set is computed
\* once, before the loop, and is not extended inside it
NewDocs(ds, retrieved) ==
    LET keep == SelectSeq(ds, LAMBDA d : DocId(d) \notin AlreadyRetrievedDocIds(retrieved))
    IN  [i \in DOMAIN keep |-> FormatDoc(keep[i])]

\* mutant: the node returns the new docs alone, which replace the list
RetrievedAfterReplace(ds, retrieved) ==
    IF NewDocs(ds, retrieved) # <<>> THEN NewDocs(ds, retrieved) ELSE retrieved

\* the "retrieved_docs" value of the state after retrieve_documents returns
RetrievedAfter(ds, retrieved) ==
    IF NewDocs(ds, retrieved) # <<>>
    THEN retrieved \o NewDocs(ds, retrieved)
    ELSE retrieved

UserMessages(msgs) == SelectSeq(msgs, LAMBDA m : m.role = "human")

-----------------------------------------------------------------------------
\* analyze_conversation: the status rule

BaseState(is_solved) == IF is_solved THEN SOLVED ELSE ACTIVE

\* mutant: the cap test is strict
NeedsEscalationStrict(res, ic) ==
    \/ res.needs_support_escalation
    \/ (ic > CAP /\ BaseState(res.is_solved) = ACTIVE)

\* mutant: the cap is reached one iteration early
NeedsEscalationEarly(res, ic) ==
    \/ res.needs_support_escalation
    \/ (ic + 1 >= CAP /\ BaseState(res.is_solved) = ACTIVE)

NeedsEscalation(res, ic) ==
    \/ res.needs_support_escalation
    \/ (ic >= CAP /\ BaseState(res.is_solved) = ACTIVE)

\* mutant: a solved conversation is never escalated
AnalyzedStateSolvedWins(res, ic) ==
    IF res.is_solved THEN SOLVED
    ELSE IF NeedsEscalation(res, ic) THEN ESCALATED ELSE ACTIVE

AnalyzedState(res, ic) ==
    IF NeedsEscalation(res, ic) THEN ESCALATED ELSE BaseState(res.is_solved)

\* mutant: the turn is counted twice
NextIterationCountTwice(ic) == ic + 2

\* generate_response: "iteration_count": state["iteration_count"] + 1
NextIterationCount(ic) == ic + 1

\* mutant: retrieve_documents is wired straight to generate_response
EdgeFromSkipsAnalyze(node, cs) ==
    CASE node = "START" -> "retrieve_documents"
      [] node = "retrieve_documents" -> "generate_response"
      [] node = "analyze_conversation" -> "generate_response"
      [] node = "generate_response" ->
            IF cs \in {SOLVED, ESCALATED} THEN "END" ELSE "retrieve_documents"

\* the edges of the graph (add_edge / add_conditional_edges)
EdgeFrom(node, cs) ==
    CASE node = "START" -> "retrieve_documents"
      [] node = "retrieve_documents" -> "analyze_conversation"
      [] node = "analyze_conversation" -> "generate_response"
      [] node = "generate_response" ->
            IF cs \in {SOLVED, ESCALATED} THEN "END" ELSE "retrieve_documents"

-----------------------------------------------------------------------------
\* Initial state: the State defaults plus the caller's initial messages

InitialMessages == {<<>>} \cup {<<HumanMessage(q)>> : q \in Queries}

GraphInit ==
    /\ pc = "START"
    /\ messages \in InitialMessages
    /\ summary = ""
    /\ retrieved_docs = <<>>
    /\ iteration_count = 0
    /\ conversation_state = ACTIVE
    /\ detected_installation_method = "unknown"
    /\ detected_os = "unknown"
    /\ needs_support_escalation = FALSE
    /\ docs = <<>>
    /\ result = NoResult

\* graph.invoke(state): the START edge
Invoke ==
    /\ UNCHANGED allButGraph
    /\ pc = "START"
    /\ pc' = EdgeFrom("START", conversation_state)
    /\ UNCHANGED <<messages, summary, retrieved_docs, iteration_count,
                   conversation_state, detected_installation_method, detected_os,
                   needs_support_escalation, docs, result>>

RetrieveDocuments ==
    /\ UNCHANGED allButGraph
    /\ pc = "retrieve_documents"
    /\ IF UserMessages(messages) = <<>>
       THEN /\ docs' = <<>>
            /\ UNCHANGED retrieved_docs
       ELSE \E ds \in SimilaritySearch :
                /\ docs' = ds
                /\ retrieved_docs' = RetrievedAfter(ds, retrieved_docs)
    /\ pc' = EdgeFrom("retrieve_documents", conversation_state)
    /\ UNCHANGED <<messages, summary, iteration_count, conversation_state,
                   detected_installation_method, detected_os,
                   needs_support_escalation, result>>

AnalyzeConversation ==
    /\ UNCHANGED allButGraph
    /\ pc = "analyze_conversation"
    /\ \E res \in InstallationAssistantAnalysis :
        /\ result' = res
        /\ summary' = res.updated_summary
        /\ conversation_state' = AnalyzedState(res, iteration_count)
        /\ detected_installation_method' = res.detected_installation_method
        /\ detected_os' = res.detected_os
        /\ needs_support_escalation' = NeedsEscalation(res, iteration_count)
    /\ pc' = EdgeFrom("analyze_conversation", conversation_state')
    /\ docs' = <<>>
    /\ UNCHANGED <<messages, retrieved_docs, iteration_count>>

GenerateResponse ==
    /\ UNCHANGED allButGraph
    /\ pc = "generate_response"
    /\ messages' = Append(messages, AIMessage("response"))
    /\ iteration_count' = NextIterationCount(iteration_count)
    /\ pc' = EdgeFrom("generate_response", conversation_state)
    /\ result' = NoResult
    /\ UNCHANGED <<summary, retrieved_docs, conversation_state,
                   detected_installation_method, detected_os,
                   needs_support_escalation, docs>>

\* the caller invokes the graph again on the state a finished run returned,
\* with the user's next message added to it
NewMessage ==
    /\ UNCHANGED allButGraph
    /\ pc = "END"
    /\ Len(UserMessages(messages)) < MaxUserMessages
    /\ \E q \in Queries : messages' = Append(messages, HumanMessage(q))
    /\ pc' = "START"
    /\ UNCHANGED <<summary, retrieved_docs, iteration_count, conversation_state,
                   detected_installation_method, detected_os,
                   needs_support_escalation, docs, result>>

\* the caller starts a new conversation: a fresh State
NewConversation ==
    /\ UNCHANGED allButGraph
    /\ pc = "END"
    /\ pc' = "START"
    /\ messages' \in InitialMessages
    /\ summary' = ""
    /\ retrieved_docs' = <<>>
    /\ iteration_count' = 0
    /\ conversation_state' = ACTIVE
    /\ detected_installation_method' = "unknown"
    /\ detected_os' = "unknown"
    /\ needs_support_escalation' = FALSE
    /\ docs' = <<>>
    /\ result' = NoResult

GraphStep == Invoke \/ RetrieveDocuments \/ AnalyzeConversation \/ GenerateResponse


-----------------------------------------------------------------------------
\* Knowledge-base reindex: text helpers. A string is a sequence of
\* one-character strings.

NL == "\n"
Whitespace == {" ", NL}

RECURSIVE LStrip(_)
LStrip(s) == IF s # <<>> /\ Head(s) \in Whitespace THEN LStrip(Tail(s)) ELSE s

RECURSIVE RStrip(_)
RStrip(s) ==
    IF s # <<>> /\ s[Len(s)] \in Whitespace THEN RStrip(SubSeq(s, 1, Len(s) - 1)) ELSE s

\* str.strip()
Strip(s) == RStrip(LStrip(s))

RECURSIVE Join(_)
\* "".join(parts)
Join(parts) == IF parts = <<>> THEN <<>> ELSE Head(parts) \o Join(Tail(parts))

RECURSIVE SplitLines(_)
\* content.split('\n')
SplitLines(s) ==
    IF \A i \in DOMAIN s : s[i] # NL
    THEN <<s>>
    ELSE LET i == CHOOSE k \in DOMAIN s : s[k] = NL /\ \A j \in 1..(k - 1) : s[j] # NL
         IN  <<SubSeq(s, 1, i - 1)>> \o SplitLines(SubSeq(s, i + 1, Len(s)))

\* NotionBaseDocument.update_content: the markdown of one block
RenderBlock(block) ==
    CASE block.type = "paragraph" ->
            IF block.text # <<>> THEN block.text \o <<NL, NL>> ELSE <<>>
      [] block.type = "heading_1" ->
            IF block.text # <<>> THEN <<"#", " ">> \o block.text \o <<NL, NL>> ELSE <<>>
      [] block.type = "bulleted_list_item" ->
            IF block.text # <<>> THEN <<"*", " ">> \o block.text \o <<NL>> ELSE <<>>
      [] block.type = "divider" -> <<"-", "-", "-", NL, NL>>
      [] OTHER -> <<>>

RECURSIVE RenderBlocks(_)
\* NotionBaseDocument.update_content: "".join(content)
RenderBlocks(blocks) ==
    IF blocks = <<>> THEN <<>> ELSE RenderBlock(Head(blocks)) \o RenderBlocks(Tail(blocks))

\* header = f"# {self.title}\n\n{self.summary}\n\n"
Header(title, summ) == <<"#", " ">> \o title \o <<NL, NL>> \o summ \o <<NL, NL>>

\* is_separator = line.startswith('#') or line.strip() == '---'
IsSeparator(line) ==
    \/ (line # <<>> /\ line[1] = "#")
    \/ Strip(line) = <<"-", "-", "-">>

\* mutant: the lines of the chunk just closed stay in current_chunk
NewChunkKeepsLines(acc) ==
    [chunks |-> Append(acc.chunks, Join(acc.current_chunk)),
     current_chunk |-> acc.current_chunk,
     current_size |-> 0]

\* chunks.append(...); current_chunk = []; current_size = 0
NewChunk(acc) ==
    [chunks |-> Append(acc.chunks, Join(acc.current_chunk)),
     current_chunk |-> <<>>,
     current_size |-> 0]

\* mutant: a separator line always starts a new chunk
ChunkLineSplitsAtSeparator(acc, line, chunk_size) ==
    LET line_with_newline == Append(line, NL)
        line_size == Len(line_with_newline)
        a1 == IF IsSeparator(line) /\ acc.current_chunk # <<>>
              THEN NewChunk(acc) ELSE acc
        a2 == [a1 EXCEPT !.current_chunk = Append(@, line_with_newline),
                         !.current_size = @ + line_size]
    IN  IF a2.current_size >= chunk_size THEN NewChunk(a2) ELSE a2

\* one iteration of `for line in lines` in to_vector_documents
ChunkLine(acc, line, chunk_size) ==
    LET line_with_newline == Append(line, NL)
        line_size == Len(line_with_newline)
        a1 == IF /\ IsSeparator(line)
                 /\ acc.current_chunk # <<>>
                 /\ acc.current_size + line_size > chunk_size
              THEN NewChunk(acc) ELSE acc
        a2 == [a1 EXCEPT !.current_chunk = Append(@, line_with_newline),
                         !.current_size = @ + line_size]
    IN  IF a2.current_size >= chunk_size THEN NewChunk(a2) ELSE a2

RECURSIVE ChunkLines(_, _, _)
ChunkLines(acc, lines, chunk_size) ==
    IF lines = <<>> THEN acc
    ELSE ChunkLines(ChunkLine(acc, Head(lines), chunk_size), Tail(lines), chunk_size)

\* mutant: the lines left after the loop are not made a chunk
ChunkTextsNoFinalChunk(title, summ, content, chunk_size) ==
    LET header == Header(title, summ)
        start == [chunks |-> <<>>, current_chunk |-> <<header>>,
                  current_size |-> Len(header)]
    IN  IF content = <<>>
        THEN <<Join(<<header>>)>>
        ELSE ChunkLines(start, SplitLines(content), chunk_size).chunks

\* KnowledgeBaseDocument.to_vector_documents: the texts handed to
\* _create_vector_doc, in order. A content of None is the empty string here:
\* the code tests it only with `not self.content`.
ChunkTexts(title, summ, content, chunk_size) ==
    LET header == Header(title, summ)
        start == [chunks |-> <<>>, current_chunk |-> <<header>>,
                  current_size |-> Len(header)]
    IN  IF content = <<>>
        THEN <<Join(<<header>>)>>
        ELSE LET acc == ChunkLines(start, SplitLines(content), chunk_size)
             IN  IF acc.current_chunk # <<>>
                 THEN Append(acc.chunks, Join(acc.current_chunk))
                 ELSE acc.chunks

\* NotionKnowledgeVectorDocument.__init__: uuid.uuid5(namespace, md5(content)),
\* a value determined by (document_id, content)
Uuid5(document_id, content) == <<document_id, content>>

\* KnowledgeBaseDocument._create_vector_doc
CreateVectorDoc(doc, text) ==
    [id |-> Uuid5(doc.id, Strip(text)),
     content |-> Strip(text),
     document_id |-> doc.id,
     notion_id |-> doc.notion_id]

ToVectorDocuments(doc, chunk_size) ==
    LET texts == ChunkTexts(doc.title, doc.summary, doc.content, chunk_size)
    IN  [i \in DOMAIN texts |-> CreateVectorDoc(doc, texts[i])]

-----------------------------------------------------------------------------
\* The Notion knowledge-base database: its pages, in query order

Text(c) == <<c>>

\* the second page came back without an id
NotionIds == <<"n1", "", "n2", "n3">>

INSTALLATION == "Installation"
DEPLOY == "Deploy"

\* the invocations of the script that can be running at the same time
Procs == {1, 2}

\* page "n1" before (0) and after (1) its author edited it
Versions == {0, 1}

\* the blocks of the pages; ver is the version of page "n1"
NotionPage(i, ver) ==
    [notion_id |-> NotionIds[i], title |-> Text("T"), summary |-> Text("s"),
     categories |-> IF i = 4 THEN {DEPLOY} ELSE {INSTALLATION},
     blocks |-> IF i = 1
                THEN IF ver = 0
                     THEN <<[type |-> "heading_1", text |-> Text("I")],
                            [type |-> "paragraph", text |-> Text("a")],
                            [type |-> "divider", text |-> <<>>],
                            [type |-> "heading_1", text |-> Text("S")],
                            [type |-> "paragraph", text |-> Text("a")]>>
                     ELSE <<[type |-> "heading_1", text |-> Text("I")],
                            [type |-> "paragraph", text |-> Text("b")]>>
                ELSE <<[type |-> "paragraph", text |-> Text("a")]>>]

PageOf(notion_id, ver) ==
    NotionPage(CHOOSE i \in DOMAIN NotionIds : NotionIds[i] = notion_id, ver)

\* NotionBaseDocument.from_notion: id is uuid.uuid4(), content is None
FromNotion(page, uuid) ==
    [notion_id |-> page.notion_id, id |-> uuid, title |-> page.title,
     summary |-> page.summary, content |-> <<>>]

\* main: process_knowledge_base_docs(categories={DocumentCategory.INSTALLATION})
MainCategories == {INSTALLATION}

\* notion.databases.query with _build_notion_filter: the pages of one of the
\* categories asked for, all pages when none is asked for
QueryPages(categories) ==
    SelectSeq([i \in DOMAIN NotionIds |-> i],
              LAMBDA i : categories = {}
                         \/ NotionPage(i, 0).categories \cap categories # {})

\* the points a filter on metadata.notion_id matches
Matching(points, notion_id) == {p \in points : p.notion_id = notion_id}

\* VectorBaseDocument.search with a filter on metadata.notion_id: the matching
\* points, or no point when the store does not answer (read paths log a
\* failure and return empty)
SearchByNotionId(points, notion_id, answered) ==
    IF answered THEN Matching(points, notion_id) ELSE {}

\* mutant: the delete selects every point of the collection
PointsSelectorAll(points, notion_id) == points

\* qdrant_connection.delete(points_selector=filter_condition): the points the
\* delete removes
PointsSelector(points, notion_id) == Matching(points, notion_id)

\* VectorBaseDocument.bulk_insert: an upsert by point id
Upsert(points, new) ==
    LET newset == {new[i] : i \in DOMAIN new}
    IN  {p \in points : \A q \in newset : q.id # p.id} \cup newset

\* mutant: an exception ends the loop
NextPositionAbort(i, n, event) ==
    IF i < n /\ event # "except"
    THEN [idx |-> i + 1, rpc |-> "loop"]
    ELSE [idx |-> 0, rpc |-> "idle"]

\* `for doc in docs`: after the body ran for document i of n (to its end, to a
\* `continue` or into the except clause), the next document, or the end
NextPosition(i, n, event) ==
    IF i < n
    THEN [idx |-> i + 1, rpc |-> "loop"]
    ELSE [idx |-> 0, rpc |-> "idle"]

\* the document the loop of invocation w is at
Doc(w) == batch[w][idx[w]]

ReindexInit ==
    /\ store = {}
    /\ uuid4_next = 1
    /\ version = 0
    /\ batch = [w \in Procs |-> <<>>]
    /\ idx = [w \in Procs |-> 0]
    /\ rpc = [w \in Procs |-> "idle"]
    /\ vector_docs = [w \in Procs |-> <<>>]
    /\ runs = 0
    /\ log = [w \in Procs |-> <<>>]

\* an author edits page "n1" in Notion while no invocation is running
EditPage ==
    /\ UNCHANGED allButReindex
    /\ \A w \in Procs : rpc[w] = "idle"
    /\ version = 0
    /\ version' = 1
    /\ UNCHANGED <<store, uuid4_next, batch, idx, rpc, vector_docs, runs, log>>

\* process_knowledge_base_docs up to the loop: bulk_find returns the pages, or
\* [] when the query fails
StartRun(w) ==
    /\ UNCHANGED allButReindex
    /\ rpc[w] = "idle"
    /\ runs < MaxRuns
    /\ runs' = runs + 1
    /\ \E found \in BOOLEAN :
        LET pages == IF found THEN QueryPages(MainCategories) ELSE <<>>
        IN  /\ batch' = [batch EXCEPT ![w] =
                            [i \in DOMAIN pages |->
                                FromNotion(NotionPage(pages[i], version),
                                           uuid4_next + i - 1)]]
            /\ uuid4_next' = uuid4_next + Len(pages)
            /\ idx' = [idx EXCEPT ![w] = IF pages # <<>> THEN 1 ELSE 0]
            /\ rpc' = [rpc EXCEPT ![w] = IF pages # <<>> THEN "loop" ELSE "idle"]
    /\ vector_docs' = [vector_docs EXCEPT ![w] = <<>>]
    /\ UNCHANGED <<store, version, log>>

\* the top of the loop body: `if not doc.notion_id: ... continue`
CheckNotionId(w) ==
    /\ UNCHANGED allButReindex
    /\ rpc[w] = "loop"
    /\ IF Doc(w).notion_id = ""
       THEN LET next == NextPosition(idx[w], Len(batch[w]), "skipped")
            IN  /\ log' = [log EXCEPT ![w] =
                              Append(@, [event |-> "skipped",
                                         notion_id |-> Doc(w).notion_id])]
                /\ idx' = [idx EXCEPT ![w] = next.idx]
                /\ rpc' = [rpc EXCEPT ![w] = next.rpc]
       ELSE /\ rpc' = [rpc EXCEPT ![w] = "update_content"]
            /\ UNCHANGED <<idx, log>>
    /\ UNCHANGED <<store, uuid4_next, version, batch, vector_docs, runs>>

\* await doc.update_content(): on a failed fetch the error is logged and
\* content stays as it was
UpdateContent(w) ==
    /\ UNCHANGED allButReindex
    /\ rpc[w] = "update_content"
    /\ \E fetched \in BOOLEAN :
        batch' = [batch EXCEPT ![w][idx[w]].content =
                    IF fetched
                    THEN RenderBlocks(PageOf(Doc(w).notion_id, version).blocks)
                    ELSE @]
    /\ rpc' = [rpc EXCEPT ![w] = "delete_by_notion_id"]
    /\ UNCHANGED <<store, uuid4_next, version, idx, vector_docs, runs, log>>

\* NotionKnowledgeVectorDocument.delete_by_notion_id: the search gives the
\* matching points, or nothing when it fails; the filtered delete runs only
\* when the search gave something, and raises when the store refuses it
DeleteByNotionId(w) ==
    /\ UNCHANGED allButReindex
    /\ rpc[w] = "delete_by_notion_id"
    /\ \E answered \in BOOLEAN, deleted \in BOOLEAN :
        LET matching_docs == SearchByNotionId(store, Doc(w).notion_id, answered)
        IN  IF matching_docs # {}
            THEN IF deleted
                 THEN /\ store' = store \ PointsSelector(store, Doc(w).notion_id)
                      /\ rpc' = [rpc EXCEPT ![w] = "to_vector_documents"]
                 ELSE /\ store' = store
                      /\ rpc' = [rpc EXCEPT ![w] = "except"]
            ELSE /\ store' = store
                 /\ rpc' = [rpc EXCEPT ![w] = "to_vector_documents"]
    /\ UNCHANGED <<uuid4_next, version, batch, idx, vector_docs, runs, log>>

\* vector_docs = doc.to_vector_documents(); the embedding call in
\* NotionKnowledgeVectorDocument.__init__ may raise
ToVectorDocumentsStep(w) ==
    /\ UNCHANGED allButReindex
    /\ rpc[w] = "to_vector_documents"
    /\ \E embedded \in BOOLEAN :
        /\ vector_docs' = [vector_docs EXCEPT ![w] =
                             IF embedded THEN ToVectorDocuments(Doc(w), ChunkSize)
                                         ELSE <<>>]
        /\ rpc' = [rpc EXCEPT ![w] = IF embedded THEN "bulk_insert" ELSE "except"]
    /\ UNCHANGED <<store, uuid4_next, version, batch, idx, runs, log>>

\* NotionKnowledgeVectorDocument.bulk_insert(vector_docs): the points are
\* upserted, or the write fails and raises
BulkInsert(w) ==
    /\ UNCHANGED allButReindex
    /\ rpc[w] = "bulk_insert"
    /\ \E inserted \in BOOLEAN :
        /\ store' = IF inserted THEN Upsert(store, vector_docs[w]) ELSE store
        /\ rpc' = [rpc EXCEPT ![w] = IF inserted THEN "processed" ELSE "except"]
    /\ UNCHANGED <<uuid4_next, version, batch, idx, vector_docs, runs, log>>

\* logfire.info("Successfully processed ...") / logfire.error(...), then the
\* next document of the batch
NextDocument(w) ==
    /\ UNCHANGED allButReindex
    /\ rpc[w] \in {"processed", "except"}
    /\ log' = [log EXCEPT ![w] =
                  Append(@, [event |-> rpc[w], notion_id |-> Doc(w).notion_id])]
    /\ LET next == NextPosition(idx[w], Len(batch[w]), rpc[w])
       IN  /\ idx' = [idx EXCEPT ![w] = next.idx]
           /\ rpc' = [rpc EXCEPT ![w] = next.rpc]
    /\ vector_docs' = [vector_docs EXCEPT ![w] = <<>>]
    /\ UNCHANGED <<store, uuid4_next, version, batch, runs>>

\* one invocation of the script at a time, the pages edited between runs
ReindexNext ==
    \/ EditPage
    \/ StartRun(1)
    \/ CheckNotionId(1)
    \/ UpdateContent(1)
    \/ DeleteByNotionId(1)
    \/ ToVectorDocumentsStep(1)
    \/ BulkInsert(1)
    \/ NextDocument(1)

\* two invocations of the script at the same time: the loop body awaits
\* nothing of the other invocation and takes no lock
ConcurrentNext ==
    \E w \in Procs :
        \/ StartRun(w)
        \/ CheckNotionId(w)
        \/ UpdateContent(w)
        \/ DeleteByNotionId(w)
        \/ ToVectorDocumentsStep(w)
        \/ BulkInsert(w)
        \/ NextDocument(w)

-----------------------------------------------------------------------------
\* The Discord bot (src/discord_agent.py): the conversation manager and the
\* on_message handler

\* class State(Enum)
START == 0
IN_PROGRESS == 1
END == 2

\* message.channel.id: two channels of MAIN_CHANNEL_IDS and one other channel
MAIN_CHANNEL_IDS == {"c1", "c2"}
Channels == MAIN_CHANNEL_IDS \cup {"c3"}

\* message.author: bot.user and two users
BotUser == "bot"
Authors == {BotUser, "u1", "u2"}

None == "None"
ValidationError == "ValidationError"
TypeError == "TypeError"

\* class Conversation(BaseModel): the fields without a default (last_activity
\* has a default_factory)
RequiredConversationFields ==
    {"messages", "user_id", "state", "channel_id", "problems_summary"}

\* Conversation(**data): pydantic validates the fields given; a required field
\* that is not given raises ValidationError
Conversation(data) ==
    IF RequiredConversationFields \subseteq DOMAIN data THEN data ELSE ValidationError

\* ConversationManager.get_active_conversation: the position, in the channel's
\* list, of the first conversation of the user that is not END, or None
GetActiveConversation(convs, channel_id, user_id) ==
    IF channel_id \notin DOMAIN convs
    THEN None
    ELSE LET live == {i \in DOMAIN convs[channel_id] :
                        /\ convs[channel_id][i].user_id = user_id
                        /\ convs[channel_id][i].state # END}
         IN  IF live = {} THEN None
             ELSE CHOOSE i \in live : \A j \in live : i <= j

\* `if channel_id not in self.channel_conversations:
\*      self.channel_conversations[channel_id] = []`
WithChannel(convs, channel_id) ==
    IF channel_id \in DOMAIN convs
    THEN convs
    ELSE [c \in DOMAIN convs \cup {channel_id} |->
            IF c = channel_id THEN <<>> ELSE convs[c]]

\* ConversationManager.create_conversation: the channel's list is created,
\* then the Conversation is constructed from messages, user_id, state and
\* channel_id, and appended when the construction did not raise
CreateConversation(convs, channel_id, user_id) ==
    LET with_channel == WithChannel(convs, channel_id)
        conv == Conversation([messages |-> <<>>, user_id |-> user_id,
                              state |-> START, channel_id |-> channel_id])
    IN  IF conv = ValidationError
        THEN [raised |-> ValidationError, convs |-> with_channel]
        ELSE [raised |-> None,
              convs |-> [with_channel EXCEPT ![channel_id] = Append(@, conv)]]

\* Conversation.add_message
AddMessage(conv, content, author_id, is_bot) ==
    [conv EXCEPT !.messages =
        Append(@, [content |-> content, author_id |-> author_id, is_bot |-> is_bot])]

\* async def process_message(message_content, problems_summary=None)
ProcessMessageParameters == {"message_content", "problems_summary"}

\* process_message(message_content=..., previous_summary=...) in on_message
ProcessMessageKeywords == {"message_content", "previous_summary"}

\* calling a function with a keyword it does not declare raises TypeError
\* before its body runs
CallRaises(keywords, parameters) == ~(keywords \subseteq parameters)

DiscordInit ==
    /\ channel_conversations = <<>>
    /\ handled = <<>>

\* on_message(message), from its first statement to its first suspension or
\* to the exception that ends it
OnMessage ==
    /\ UNCHANGED allButDiscord
    /\ Len(handled) < MaxMessages
    /\ \E channel \in Channels, author \in Authors :
        LET active == GetActiveConversation(channel_conversations, channel, author)
            created == CreateConversation(channel_conversations, channel, author)
            convs == IF active = None THEN created.convs ELSE channel_conversations
            at == IF active = None THEN Len(convs[channel]) ELSE active
            with_message ==
                [convs EXCEPT ![channel][at] = AddMessage(@, "content", author, FALSE)]
            outcome ==
                IF author = BotUser \/ channel \notin MAIN_CHANNEL_IDS THEN "ignored"
                ELSE IF active = None /\ created.raised # None THEN created.raised
                ELSE IF CallRaises(ProcessMessageKeywords, ProcessMessageParameters)
                     THEN TypeError
                     ELSE "awaiting"
        IN  /\ channel_conversations' =
                   CASE outcome = "ignored" -> channel_conversations
                     [] outcome = ValidationError -> created.convs
                     [] OTHER -> with_message
            /\ handled' = Append(handled, [channel |-> channel, author |-> author,
                                           outcome |-> outcome])

DiscordNext == OnMessage

-----------------------------------------------------------------------------
\* The segmenter on its own: KnowledgeBaseDocument.to_vector_documents applied
\* to one document

\* the blocks a page is made of
BlockKinds ==
    {[type |-> "heading_1", text |-> Text("I")],
     [type |-> "paragraph", text |-> Text("a")],
     [type |-> "paragraph", text |-> <<"a", "a", "a", "a", "a", "a">>],
     [type |-> "bulleted_list_item", text |-> Text("a")],
     [type |-> "divider", text |-> <<>>]}

\* the pages of at most MaxBlocks blocks
BlockSeqs == UNION {[1..n -> BlockKinds] : n \in 0..MaxBlocks}

\* the smallest chunk_size: every line closes a chunk
MinChunkSize == 1

\* the chunk_size arguments tried: the smallest, two small ones and the default
ChunkSizes == {MinChunkSize, ChunkSize, ChunkSize + 3, DefaultChunkSize}

SegmentInit ==
    /\ seg_pc = "input"
    /\ seg_doc = [title |-> <<>>, summary |-> <<>>, content |-> <<>>]
    /\ seg_chunk_size = DefaultChunkSize
    /\ seg_chunks = <<>>

\* a document is loaded: title and summary from the page's properties, content
\* from update_content
ChooseDocument ==
    /\ UNCHANGED allButSegment
    /\ seg_pc = "input"
    /\ \E blocks \in BlockSeqs, summ \in {Text("s"), <<>>}, chunk_size \in ChunkSizes :
        /\ seg_doc' = [title |-> Text("T"), summary |-> summ,
                       content |-> RenderBlocks(blocks)]
        /\ seg_chunk_size' = chunk_size
    /\ seg_chunks' = <<>>
    /\ seg_pc' = "loaded"

\* doc.to_vector_documents(chunk_size): the texts of the chunks, before
\* _create_vector_doc strips them
Segment ==
    /\ UNCHANGED allButSegment
    /\ seg_pc = "loaded"
    /\ seg_chunks' = ChunkTexts(seg_doc.title, seg_doc.summary, seg_doc.content,
                                seg_chunk_size)
    /\ seg_pc' = "done"
    /\ UNCHANGED <<seg_doc, seg_chunk_size>>

\* the next document
NextInput ==
    /\ UNCHANGED allButSegment
    /\ seg_pc = "done"
    /\ seg_pc' = "input"
    /\ seg_doc' = [title |-> <<>>, summary |-> <<>>, content |-> <<>>]
    /\ seg_chunk_size' = DefaultChunkSize
    /\ seg_chunks' = <<>>

SegmentNext == ChooseDocument \/ Segment \/ NextInput

-----------------------------------------------------------------------------
\* ChunkingMixin.chunk_text (models/base/documents.py) applied to one text.
\* A section is the sequence of its words; the tokenizer of the token splitter
\* gives one token per word.

\* embedding_model.max_input_length
MaxInputLength == 3
\* chunk_overlap handed to the token splitter
ChunkOverlap == 1
\* the sections character_splitter.split_text gives for one text, at most
MaxSections == 3

\* the section at position s, of n words: a word is known by its section and
\* its position in it
Section(s, n) == [k \in 1..n |-> <<s, k>>]

\* the word counts tried: under, at and over max_input_length
SectionLengths == 1..(MaxInputLength + 2)

\* character_splitter.split_text(text): the texts' sections, in order
SectionLists ==
    UNION {{[i \in 1..n |-> Section(i, lens[i])] : lens \in [1..n -> SectionLengths]} :
           n \in 0..MaxSections}

\* len(section.split())
WordCount(section) == Len(section)

Min(a, b) == IF a <= b THEN a ELSE b

RECURSIVE SplitTextOnTokens(_, _, _, _)
\* token_splitter.split_text(section): windows of tokens_per_chunk tokens, each
\* starting tokens_per_chunk - chunk_overlap tokens after the one before
SplitTextOnTokens(input_ids, start_idx, tokens_per_chunk, chunk_overlap) ==
    LET cur_idx == Min(start_idx + tokens_per_chunk, Len(input_ids))
        chunk_ids == SubSeq(input_ids, start_idx + 1, cur_idx)
    IN  IF start_idx >= Len(input_ids) THEN <<>>
        ELSE IF cur_idx = Len(input_ids) THEN <<chunk_ids>>
        ELSE <<chunk_ids>> \o SplitTextOnTokens(input_ids,
                                               start_idx + tokens_per_chunk - chunk_overlap,
                                               tokens_per_chunk, chunk_overlap)

\* mutant: a section at the limit is split too
ExceedsTokenLimitAtBoundary(section) == WordCount(section) >= MaxInputLength

\* if len(section.split()) > self.embedding_model.max_input_length
ExceedsTokenLimit(section) == WordCount(section) > MaxInputLength

ChunkTextInit ==
    /\ ct_pc = "input"
    /\ text_split_by_sections = <<>>
    /\ section_idx = 1
    /\ chunks_by_tokens = <<>>
    /\ resplit = {}

\* chunk_text(text): the text is split by the section separators
ChunkTextCall ==
    /\ UNCHANGED allButChunkText
    /\ ct_pc = "input"
    /\ \E sections \in SectionLists : text_split_by_sections' = sections
    /\ section_idx' = 1
    /\ chunks_by_tokens' = <<>>
    /\ resplit' = {}
    /\ ct_pc' = "loop"

\* one iteration of `for section in text_split_by_sections`
ChunkTextSection ==
    /\ UNCHANGED allButChunkText
    /\ ct_pc = "loop"
    /\ section_idx <= Len(text_split_by_sections)
    /\ LET section == text_split_by_sections[section_idx]
       IN  IF ExceedsTokenLimit(section)
           THEN /\ chunks_by_tokens' = chunks_by_tokens \o
                        SplitTextOnTokens(section, 0, MaxInputLength, ChunkOverlap)
                /\ resplit' = resplit \cup {section_idx}
           ELSE /\ chunks_by_tokens' = Append(chunks_by_tokens, section)
                /\ UNCHANGED resplit
    /\ section_idx' = section_idx + 1
    /\ UNCHANGED <<ct_pc, text_split_by_sections>>

\* return chunks_by_tokens
ChunkTextReturn ==
    /\ UNCHANGED allButChunkText
    /\ ct_pc = "loop"
    /\ section_idx > Len(text_split_by_sections)
    /\ ct_pc' = "done"
    /\ UNCHANGED <<text_split_by_sections, section_idx, chunks_by_tokens, resplit>>

\* the next text
NextText ==
    /\ UNCHANGED allButChunkText
    /\ ct_pc = "done"
    /\ ct_pc' = "input"
    /\ text_split_by_sections' = <<>>
    /\ section_idx' = 1
    /\ chunks_by_tokens' = <<>>
    /\ resplit' = {}

ChunkTextNext == ChunkTextCall \/ ChunkTextSection \/ ChunkTextReturn \/ NextText

-----------------------------------------------------------------------------
\* The article crawler: GenericArticleCrawler.extract over the document store
\* (NoSQLBaseDocument.find, get_or_create, save), called by concurrent callers.
\* An Optional value is a set: {} is None, {d} is the document d.

\* the calls of extract made in all, at most
MaxCalls == 3

Callers == {1, 2}
Links == {"l1", "l2"}

OperationFailure == "OperationFailure"
AttributeError == "AttributeError"

\* UserDocument.get_or_create(first_name="Anonymous", last_name="User")
AnonymousUser(uuid) == [id |-> uuid, first_name |-> "Anonymous", last_name |-> "User"]

\* a user the caller hands over with kwargs["user"]
KnownUser == [id |-> 0, first_name |-> "Fede", last_name |-> "Cardoso"]

\* collection.find_one({"link": link})
ArticlesWith(link) == {a \in articles : a.link = link}

\* collection.find_one({"first_name": "Anonymous", "last_name": "User"})
AnonymousUsers == {u \in users : u.first_name = "Anonymous" /\ u.last_name = "User"}

NotReturned == [kind |-> "none", doc |-> {}, error |-> ""]
Returned(doc) == [kind |-> "returned", doc |-> {doc}, error |-> ""]
Raised(error) == [kind |-> "raised", doc |-> {}, error |-> error]

\* `await instance.save()` and `return instance`: save answers None when the
\* insert fails, extract does not look at the answer
SaveOutcome(instance, written) == Returned(instance)

CrawlInit ==
    /\ articles = {}
    /\ users = {}
    /\ uuid4_mongo = 1
    /\ xpc = [c \in Callers |-> "idle"]
    /\ xlink = [c \in Callers |-> "l1"]
    /\ xuser = [c \in Callers |-> {}]
    /\ xret = [c \in Callers |-> NotReturned]
    /\ calls = 0
    /\ read_failed = FALSE

\* a caller calls crawler.extract(link=link, user=...)
Extract(c) ==
    /\ UNCHANGED allButCrawl
    /\ xpc[c] = "idle"
    /\ calls < MaxCalls
    /\ calls' = calls + 1
    /\ \E link \in Links, user \in {{}, {KnownUser}} :
        /\ xlink' = [xlink EXCEPT ![c] = link]
        /\ xuser' = [xuser EXCEPT ![c] = user]
    /\ xpc' = [xpc EXCEPT ![c] = "find"]
    /\ xret' = [xret EXCEPT ![c] = NotReturned]
    /\ UNCHANGED <<articles, users, uuid4_mongo, read_failed>>

\* old_model = await self.model.find(link=link): find answers a stored
\* article, or None when there is none or when the read fails; a found article
\* is returned, otherwise the page is loaded up to the next await
FindArticle(c) ==
    /\ UNCHANGED allButCrawl
    /\ xpc[c] = "find"
    /\ \E answered \in BOOLEAN :
        /\ read_failed' = (read_failed \/ ~answered)
        /\ IF answered /\ ArticlesWith(xlink[c]) # {}
           THEN \E old_model \in ArticlesWith(xlink[c]) :
                    /\ xret' = [xret EXCEPT ![c] = Returned(old_model)]
                    /\ xpc' = [xpc EXCEPT ![c] = "idle"]
           ELSE /\ xpc' = [xpc EXCEPT ![c] =
                            IF xuser[c] = {} THEN "get_or_create" ELSE "save"]
                /\ UNCHANGED xret
    /\ UNCHANGED <<articles, users, uuid4_mongo, xlink, xuser, calls>>

\* get_or_create: instance = await collection.find_one(filter_options)
GetOrCreateFind(c) ==
    /\ UNCHANGED allButCrawl
    /\ xpc[c] = "get_or_create"
    /\ \E answered \in BOOLEAN :
        IF ~answered
        THEN /\ xret' = [xret EXCEPT ![c] = Raised(OperationFailure)]
             /\ xpc' = [xpc EXCEPT ![c] = "idle"]
             /\ UNCHANGED xuser
        ELSE IF AnonymousUsers # {}
        THEN /\ \E instance \in AnonymousUsers : xuser' = [xuser EXCEPT ![c] = {instance}]
             /\ xpc' = [xpc EXCEPT ![c] = "save"]
             /\ UNCHANGED xret
        ELSE /\ xpc' = [xpc EXCEPT ![c] = "save_user"]
             /\ UNCHANGED <<xuser, xret>>
    /\ UNCHANGED <<articles, users, uuid4_mongo, xlink, calls, read_failed>>

\* get_or_create: new_instance = await new_instance.save(); save answers None
\* when the insert fails, and extract's `user.id` then raises
GetOrCreateSave(c) ==
    /\ UNCHANGED allButCrawl
    /\ xpc[c] = "save_user"
    /\ \E written \in BOOLEAN :
        LET new_instance == AnonymousUser(uuid4_mongo)
        IN  IF written
            THEN /\ users' = users \cup {new_instance}
                 /\ xuser' = [xuser EXCEPT ![c] = {new_instance}]
                 /\ xpc' = [xpc EXCEPT ![c] = "save"]
                 /\ UNCHANGED xret
            ELSE /\ xret' = [xret EXCEPT ![c] = Raised(AttributeError)]
                 /\ xpc' = [xpc EXCEPT ![c] = "idle"]
                 /\ UNCHANGED <<users, xuser>>
    /\ uuid4_mongo' = uuid4_mongo + 1
    /\ UNCHANGED <<articles, xlink, calls, read_failed>>

\* instance = self.model(...); await instance.save(); return instance
SaveArticle(c) ==
    /\ UNCHANGED allButCrawl
    /\ xpc[c] = "save"
    /\ \E written \in BOOLEAN, user \in xuser[c] :
        LET instance == [id |-> uuid4_mongo, link |-> xlink[c], author_id |-> user.id]
        IN  /\ articles' = IF written THEN articles \cup {instance} ELSE articles
            /\ xret' = [xret EXCEPT ![c] = SaveOutcome(instance, written)]
    /\ uuid4_mongo' = uuid4_mongo + 1
    /\ xpc' = [xpc EXCEPT ![c] = "idle"]
    /\ UNCHANGED <<users, xlink, xuser, calls, read_failed>>

CrawlNext ==
    \E c \in Callers :
        \/ Extract(c)
        \/ FindArticle(c)
        \/ GetOrCreateFind(c)
        \/ GetOrCreateSave(c)
        \/ SaveArticle(c)

-----------------------------------------------------------------------------
\* The patient analyzer: procesar_nueva_revision runs the graph
\* detectar_y_clasificar_evento -> determinar_nivel_riesgo ->
\* generar_resumen_evolucion -> formatear_resultado over the state Estado.

\* the reviews processed in sequence, at most
MaxReviews == 3

CENTINELA == "Evento Centinela"
ADVERSO == "Evento Adverso"
ALTO == "Alto Riesgo"
MODERADO == "Riesgo Moderado"
BAJO == "Bajo Riesgo"

\* the answers of the model: DeteccionEventoCompleto
Detecciones ==
    {[evento_detectado |-> FALSE, tipo_evento |-> "None"],
     [evento_detectado |-> TRUE, tipo_evento |-> CENTINELA],
     [evento_detectado |-> TRUE, tipo_evento |-> ADVERSO]}

\* the n-th review's text
Revision(n) == <<"revision", n>>

\* the reducer of the channels annotated with operator.add
OperatorAdd(current, update) == current \o update

\* detectar_y_clasificar_evento: the update it returns for revisiones_historicas
HistoricasUpdate(state_historicas, state_revision, resultado) ==
    IF ~resultado.evento_detectado
    THEN state_historicas \o <<state_revision>>
    ELSE <<state_revision>>

\* detectar_y_clasificar_evento: the update it returns for eventos_adversos
EventosUpdate(resultado) ==
    IF ~resultado.evento_detectado
    THEN <<>>
    ELSE <<[tipo |-> resultado.tipo_evento]>>

\* determinar_nivel_riesgo
NivelRiesgo(eventos) ==
    LET eventos_centinela == SelectSeq(eventos, LAMBDA e : e.tipo = CENTINELA)
        total_eventos == Len(eventos)
    IN  IF Len(eventos_centinela) > 0 THEN <<ALTO, "Evento Centinela detectado">>
        ELSE IF total_eventos > 1 THEN <<ALTO, "Multiples eventos detectados">>
        ELSE IF total_eventos = 1 THEN <<MODERADO, "Un evento detectado">>
        ELSE <<BAJO, "Sin eventos detectados">>

\* procesar_nueva_revision: estado_inicial
EstadoInicial(estado, nueva_revision) ==
    IF estado = {}
    THEN [revision_actual |-> nueva_revision,
          revisiones_historicas |-> <<>>,
          resumen_evolucion |-> "",
          eventos_adversos |-> <<>>,
          nivel_riesgo |-> <<BAJO, "Evaluacion inicial">>,
          resultado_formateado |-> <<>>]
    ELSE LET previo == CHOOSE e \in estado : TRUE
         IN  [previo EXCEPT !.revision_actual = nueva_revision]

PatientInit ==
    /\ pa_pc = "idle"
    /\ revision_actual = <<>>
    /\ revisiones_historicas = <<>>
    /\ eventos_adversos = <<>>
    /\ nivel_riesgo = <<BAJO, "Evaluacion inicial">>
    /\ resumen_evolucion = ""
    /\ resultado_formateado = <<>>
    /\ estado_actual = {}
    /\ revisiones = <<>>

\* procesar_nueva_revision(estado_actual, nueva_revision) up to graph.invoke:
\* the input is written to the channels, the annotated ones through their
\* reducer from the empty list
ProcesarNuevaRevision ==
    /\ UNCHANGED allButPatient
    /\ pa_pc = "idle"
    /\ Len(revisiones) < MaxReviews
    /\ LET nueva_revision == Revision(Len(revisiones) + 1)
           estado_inicial == EstadoInicial(estado_actual, nueva_revision)
       IN  /\ revisiones' = Append(revisiones, nueva_revision)
           /\ revision_actual' = estado_inicial.revision_actual
           /\ revisiones_historicas' = OperatorAdd(<<>>, estado_inicial.revisiones_historicas)
           /\ eventos_adversos' = OperatorAdd(<<>>, estado_inicial.eventos_adversos)
           /\ nivel_riesgo' = estado_inicial.nivel_riesgo
           /\ resumen_evolucion' = estado_inicial.resumen_evolucion
           /\ resultado_formateado' = estado_inicial.resultado_formateado
    /\ pa_pc' = "detectar_y_clasificar_evento"
    /\ UNCHANGED estado_actual

\* node detectar_y_clasificar_evento: its update is added to the channels
DetectarYClasificarEvento ==
    /\ UNCHANGED allButPatient
    /\ pa_pc = "detectar_y_clasificar_evento"
    /\ \E resultado \in Detecciones :
        /\ revisiones_historicas' =
               OperatorAdd(revisiones_historicas,
                           HistoricasUpdate(revisiones_historicas, revision_actual, resultado))
        /\ eventos_adversos' = OperatorAdd(eventos_adversos, EventosUpdate(resultado))
    /\ pa_pc' = "determinar_nivel_riesgo"
    /\ UNCHANGED <<revision_actual, nivel_riesgo, resumen_evolucion, resultado_formateado,
                   estado_actual, revisiones>>

\* node determinar_nivel_riesgo
DeterminarNivelRiesgo ==
    /\ UNCHANGED allButPatient
    /\ pa_pc = "determinar_nivel_riesgo"
    /\ nivel_riesgo' = NivelRiesgo(eventos_adversos)
    /\ pa_pc' = "generar_resumen_evolucion"
    /\ UNCHANGED <<revision_actual, revisiones_historicas, eventos_adversos,
                   resumen_evolucion, resultado_formateado, estado_actual, revisiones>>

\* node generar_resumen_evolucion: the initial summary for a first review, the
\* updated one afterwards; the text is the model's
GenerarResumenEvolucion ==
    /\ UNCHANGED allButPatient
    /\ pa_pc = "generar_resumen_evolucion"
    /\ resumen_evolucion' =
           IF Len(revisiones_historicas) <= 1 THEN "inicial" ELSE "actualizado"
    /\ pa_pc' = "formatear_resultado"
    /\ UNCHANGED <<revision_actual, revisiones_historicas, eventos_adversos,
                   nivel_riesgo, resultado_formateado, estado_actual, revisiones>>

\* node formatear_resultado, then `return resultado`: the report carries the
\* risk level and the counts of reviews and events
FormatearResultado ==
    /\ UNCHANGED allButPatient
    /\ pa_pc = "formatear_resultado"
    /\ LET resultado == <<nivel_riesgo, Len(eventos_adversos), Len(revisiones_historicas)>>
       IN  /\ resultado_formateado' = resultado
           /\ estado_actual' =
                  {[revision_actual |-> revision_actual,
                    revisiones_historicas |-> revisiones_historicas,
                    resumen_evolucion |-> resumen_evolucion,
                    eventos_adversos |-> eventos_adversos,
                    nivel_riesgo |-> nivel_riesgo,
                    resultado_formateado |-> resultado]}
    /\ pa_pc' = "idle"
    /\ UNCHANGED <<revision_actual, revisiones_historicas, eventos_adversos,
                   nivel_riesgo, resumen_evolucion, revisiones>>

PatientNext ==
    \/ ProcesarNuevaRevision
    \/ DetectarYClasificarEvento
    \/ DeterminarNivelRiesgo
    \/ GenerarResumenEvolucion
    \/ FormatearResultado

-----------------------------------------------------------------------------
Init ==
    /\ GraphInit /\ ReindexInit /\ DiscordInit /\ SegmentInit /\ ChunkTextInit
    /\ CrawlInit /\ PatientInit

\* the conversation graph, the ingestion script idle
Next ==
    \/ Invoke
    \/ RetrieveDocuments
    \/ AnalyzeConversation
    \/ GenerateResponse
    \/ NewMessage
    \/ NewConversation

Spec == Init /\ [][Next]_vars

\* the graph runtime runs the next node of a started invocation
FairSpec == Spec /\ WF_vars(GraphStep)

\* no conversation is running
NoConversation == Init /\ messages = <<>>

\* the ingestion script
ReindexSpec == NoConversation /\ [][ReindexNext]_vars

\* two invocations of the ingestion script
ConcurrentSpec == NoConversation /\ [][ConcurrentNext]_vars

\* the Discord bot handling the messages it receives
DiscordSpec == NoConversation /\ [][DiscordNext]_vars

\* the segmenter applied to one document after another
SegmentSpec == NoConversation /\ [][SegmentNext]_vars

\* chunk_text applied to one text after another
ChunkTextSpec == NoConversation /\ [][ChunkTextNext]_vars

\* concurrent calls of the article crawler
CrawlSpec == NoConversation /\ [][CrawlNext]_vars

\* the patient analyzer processing one review after another
PatientSpec == NoConversation /\ [][PatientNext]_vars

-----------------------------------------------------------------------------
\* Properties of the installation-assistant graph

Terminal == {SOLVED, ESCALATED}

\* the ordinal of the turn in progress, counted from 1
Turn == iteration_count + 1

AiCount(msgs) == Len(SelectSeq(msgs, LAMBDA m : m.role = "ai"))

\* the thread has been invoked once: no user message was added after the
\* initial one, so every turn so far followed the previous one inside one run
SingleInvocation == \A i \in 2..Len(messages) : messages[i].role = "ai"

NeverSignalled == ~result.is_solved /\ ~result.needs_support_escalation

\* C1: Escalation liveness. Every generate_response step raises
\* iteration_count by exactly one; a conversation whose count has reached
\* CAP+1 = 10 is SOLVED or ESCALATED; and every conversation started at
\* iteration_count = 0 eventually reaches SOLVED or ESCALATED, whatever the
\* model answers.
C1_EscalationLiveness ==
    /\ [][pc = "generate_response" => iteration_count' = iteration_count + 1]_vars
    /\ [](iteration_count >= CAP + 1 => conversation_state \in Terminal)
    /\ []((pc = "START" /\ iteration_count = 0) => <>(conversation_state \in Terminal))

\* the 10th turn of a single run ended ESCALATED
C1_Witness ==
    /\ pc = "END"
    /\ SingleInvocation
    /\ iteration_count = CAP + 1
    /\ conversation_state = ESCALATED

\* C2: after analyze_conversation the status is ESCALATED if the model asked
\* for escalation or (iteration_count >= 9 and the model did not report
\* solved), else SOLVED if the model reported solved, else ACTIVE.
C2_StatusRule ==
    pc = "generate_response" =>
        conversation_state =
            IF result.needs_support_escalation
                  \/ (iteration_count >= CAP /\ ~result.is_solved)
            THEN ESCALATED
            ELSE IF result.is_solved THEN SOLVED ELSE ACTIVE

\* past the cap, a solved report without escalation gives SOLVED
C2_Witness ==
    /\ pc = "generate_response"
    /\ iteration_count >= CAP
    /\ result.is_solved
    /\ ~result.needs_support_escalation
    /\ conversation_state = SOLVED

\* C3 as claimed: with the model answering not solved / no escalation on every
\* turn of a conversation started at 0, the 9th turn's analysis gives ESCALATED.
C3_NinthTurnEscalated ==
    (pc = "generate_response" /\ SingleInvocation /\ NeverSignalled /\ Turn = 9)
        => conversation_state = ESCALATED

\* C3 amended: with the model answering not solved / no escalation on every
\* turn of a conversation started at 0, the analysis gives ACTIVE on turns 1..9
\* and ESCALATED on turn 10, which is the last turn.
C3_TenthTurnEscalated ==
    (pc = "generate_response" /\ SingleInvocation /\ NeverSignalled)
        => /\ Turn <= CAP + 1
           /\ Turn <= CAP => conversation_state = ACTIVE
           /\ Turn = CAP + 1 => conversation_state = ESCALATED

C3_Witness ==
    /\ pc = "generate_response"
    /\ SingleInvocation
    /\ NeverSignalled
    /\ Turn = CAP + 1
    /\ conversation_state = ESCALATED

\* C4: once the status is SOLVED or ESCALATED, no step other than the creation
\* of a new conversation changes summary, detected_installation_method,
\* detected_os or the status.
C4_TerminalImmutability ==
    [][(conversation_state \in Terminal) =>
          (\/ UNCHANGED <<summary, detected_installation_method, detected_os,
                          conversation_state>>
           \/ NewConversation)]_vars

\* C5: one user message triggers one pass: after generate_response the run
\* ends and waits for the next message; retrieve_documents is entered only by
\* an invocation.
C5_OnePassPerMessage ==
    [][pc = "generate_response" => pc' = "END"]_vars

\* C6: the stages of a turn run in the order retrieve_documents,
\* analyze_conversation, generate_response: each stage is followed by the next
\* one and entered only from the one before it.
C6_StageOrder ==
    [][(/\ pc = "retrieve_documents" => pc' = "analyze_conversation"
        /\ pc = "analyze_conversation" => pc' = "generate_response"
        /\ pc' = "analyze_conversation" => pc = "retrieve_documents"
        /\ pc' = "generate_response" => pc = "analyze_conversation"
        /\ pc' = "retrieve_documents" => pc \in {"START", "generate_response"})]_vars

\* the second turn of a run has reached generate_response after its analysis
C6_Witness ==
    /\ pc = "generate_response"
    /\ iteration_count = 1
    /\ result \in InstallationAssistantAnalysis

\* C7: iteration_count equals the number of completed turns (one assistant
\* message each); generate_response raises it by exactly one and no other
\* stage changes it; only a new conversation resets it.
C7_IterationCount ==
    /\ [](iteration_count = AiCount(messages))
    /\ [][(/\ pc = "generate_response" => iteration_count' = iteration_count + 1
           /\ (pc # "generate_response" /\ ~NewConversation)
                 => iteration_count' = iteration_count)]_vars

C7_Witness ==
    /\ pc = "retrieve_documents"
    /\ iteration_count = 3
    /\ AiCount(messages) = 3

AllIds(retrieved) == {retrieved[i].id : i \in DOMAIN retrieved}

\* C8: no chunk identity occurs twice in retrieved_docs.
C8_NoDuplicateIds ==
    \A i, j \in DOMAIN retrieved_docs :
        i # j => retrieved_docs[i].id # retrieved_docs[j].id

\* C9: retrieve_documents only extends retrieved_docs, by docs whose id was not
\* retrieved before; when every search result is already retrieved it changes
\* no state field and the turn goes on to analyze_conversation.
C9_RetrieveFrame ==
    [][pc = "retrieve_documents" =>
       (/\ Len(retrieved_docs') >= Len(retrieved_docs)
        /\ SubSeq(retrieved_docs', 1, Len(retrieved_docs)) = retrieved_docs
        /\ \A i \in (Len(retrieved_docs) + 1)..Len(retrieved_docs') :
              retrieved_docs'[i].id \notin AllIds(retrieved_docs)
        /\ (\A i \in DOMAIN docs' : DocId(docs'[i]) \in AllIds(retrieved_docs))
              => /\ pc' = "analyze_conversation"
                 /\ UNCHANGED <<messages, summary, retrieved_docs, iteration_count,
                                conversation_state, detected_installation_method,
                                detected_os, needs_support_escalation>>)]_vars

\* a search that returned only an already retrieved chunk identity added nothing
C9_Witness ==
    /\ pc = "analyze_conversation"
    /\ docs = <<Point(2)>>
    /\ retrieved_docs = <<FormatDoc(Point(1))>>

-----------------------------------------------------------------------------
\* Properties of the knowledge-base reindex

\* what invocation w logged for one document, oldest first
EventsFor(w, notion_id) == SelectSeq(log[w], LAMBDA e : e.notion_id = notion_id)

\* the last pass of invocation w over the document ended with "Successfully
\* processed"
PreviouslyProcessed(w, notion_id) ==
    /\ EventsFor(w, notion_id) # <<>>
    /\ LET ev == EventsFor(w, notion_id) IN ev[Len(ev)].event = "processed"

\* the chunk contents segmenting the page's content gives
ExpectedContents(notion_id, ver) ==
    LET page == PageOf(notion_id, ver)
        texts == ChunkTexts(page.title, page.summary, RenderBlocks(page.blocks), ChunkSize)
    IN  {Strip(texts[i]) : i \in DOMAIN texts}

\* update_content fetched the page's blocks for the current document (a failed
\* fetch leaves the content empty)
Fetched(w) ==
    Doc(w).content = RenderBlocks(PageOf(Doc(w).notion_id, version).blocks)

\* the reindex of the current document has completed with the page's blocks
\* fetched, and the one before it had completed too; the page was not edited
ReindexedTwice ==
    /\ rpc[1] = "processed"
    /\ Fetched(1)
    /\ version = 0
    /\ PreviouslyProcessed(1, Doc(1).notion_id)

\* C10: Idempotent reindex. After two reindexes of a document in succession,
\* its content unchanged, the store holds for it exactly the chunks segmenting
\* its content gives, each once.
C10_IdempotentReindex ==
    ReindexedTwice =>
        LET points == Matching(store, Doc(1).notion_id)
        IN  /\ {p.content : p \in points} = ExpectedContents(Doc(1).notion_id, version)
            /\ Cardinality(points) = Cardinality(ExpectedContents(Doc(1).notion_id, version))

\* C11: after a reindex of a document completed successfully, the page's
\* blocks fetched, the store holds for it exactly the chunks of the document's
\* current version, each once, all of them made by this reindex; no chunk of
\* an earlier reindex is left, whether or not the page changed and whether or
\* not the existence check of delete_by_notion_id saw the old chunks.
C11_ExactlyCurrentChunks ==
    (rpc[1] = "processed" /\ Fetched(1)) =>
        LET points == Matching(store, Doc(1).notion_id)
            expected == ExpectedContents(Doc(1).notion_id, version)
        IN  /\ {p.content : p \in points} = expected
            /\ Cardinality(points) = Cardinality(expected)
            /\ \A p \in points : p.document_id = Doc(1).id

\* C12: when the generation (chunking, embedding) of a document's new chunks
\* fails, the vectors the document had in the store are still there: a
\* document whose last reindex was successful has vectors in the store after
\* the failed step.
C12_GenerationFailureKeepsVectors ==
    [][(/\ rpc[1] = "to_vector_documents"
        /\ rpc'[1] = "except"
        /\ PreviouslyProcessed(1, Doc(1).notion_id))
          => Matching(store', Doc(1).notion_id) # {}]_vars

\* the last n entries of the log name the first n documents of the batch, in
\* the order of the batch
LastLoggedAre(w, n) ==
    /\ n <= Len(log[w])
    /\ \A k \in 1..n : log[w][Len(log[w]) - n + k].notion_id = batch[w][k].notion_id

\* C15: a failure while processing one document rejects only that document:
\* the loop goes on to the next document of the batch, every document of the
\* batch is passed over exactly once and in order, and the run ends after the
\* last one.
C15_BatchContinues ==
    /\ [](LastLoggedAre(1, IF rpc[1] = "idle" THEN Len(batch[1]) ELSE idx[1] - 1))
    /\ [][(rpc[1] = "except" /\ idx[1] < Len(batch[1]))
            => (rpc'[1] = "loop" /\ idx'[1] = idx[1] + 1)]_vars
    /\ [][(rpc[1] = "except" /\ idx[1] = Len(batch[1])) => rpc'[1] = "idle"]_vars

\* a run over the three pages ended: the first document failed, the second
\* had no id, the third was processed
C15_Witness ==
    /\ rpc[1] = "idle"
    /\ Len(batch[1]) = 3
    /\ Len(log[1]) = 3
    /\ log[1][1].event = "except"
    /\ log[1][2].event = "skipped"
    /\ log[1][3].event = "processed"
    /\ Matching(store, "n2") # {}

\* the points of vector_docs, as a set
ChunkSet(w) == {vector_docs[w][i] : i \in DOMAIN vector_docs[w]}

\* both invocations have reindexed the same document and neither has gone on
SameDocumentDone ==
    /\ rpc[1] = "processed"
    /\ rpc[2] = "processed"
    /\ Doc(1).notion_id = Doc(2).notion_id

\* invocation w has passed the delete of its document and not yet its insert
BetweenDeleteAndInsert(w) == rpc[w] \in {"to_vector_documents", "bulk_insert"}

\* C13: two concurrent reindexes of one document do not interleave their
\* delete+insert: the two are never both between the delete and the insert of
\* the same document, and when both have finished, the store holds for the
\* document the chunk set of exactly one of them, not both sets and not none.
C13_SerializedPerDocument ==
    /\ ~(/\ BetweenDeleteAndInsert(1)
          /\ BetweenDeleteAndInsert(2)
          /\ Doc(1).notion_id = Doc(2).notion_id)
    /\ SameDocumentDone =>
          \/ Matching(store, Doc(1).notion_id) = ChunkSet(1)
          \/ Matching(store, Doc(1).notion_id) = ChunkSet(2)

\* the ids of the pages that have one
StoredNotionIds == {NotionIds[i] : i \in DOMAIN NotionIds} \ {""}

\* invocation w is at a statement that writes the store for document n
WritesFor(w, n) ==
    /\ rpc[w] \in {"delete_by_notion_id", "bulk_insert"}
    /\ Doc(w).notion_id = n

-----------------------------------------------------------------------------
\* Properties of the Discord bot

\* the conversations of the user in the channel that are not END
LiveConversations(channel, user) ==
    IF channel \notin DOMAIN channel_conversations
    THEN {}
    ELSE {i \in DOMAIN channel_conversations[channel] :
            /\ channel_conversations[channel][i].user_id = user
            /\ channel_conversations[channel][i].state # END}

\* C17: when a message arrives for a (channel, user) pair, the live
\* conversation of the pair is used, or exactly one is created: after a
\* message of a user in a main channel was handled the pair has exactly one
\* conversation that is not END, and no pair ever has more than one.
C17_OneLiveConversation ==
    /\ \A i \in DOMAIN handled :
          handled[i].outcome # "ignored"
              => Cardinality(LiveConversations(handled[i].channel, handled[i].author)) = 1
    /\ \A channel \in Channels, user \in Authors :
          Cardinality(LiveConversations(channel, user)) <= 1

\* the on_message call of this step ended with an exception
TurnFailed ==
    /\ Len(handled') = Len(handled) + 1
    /\ handled'[Len(handled')].outcome \in {ValidationError, TypeError}

-----------------------------------------------------------------------------
\* Properties of the segmenter

\* the content of a chunk: _create_vector_doc strips the text
Content(text) == Strip(text)

\* the chunk holds one section: no header or divider line after its first line
SingleSection(text) ==
    LET lines == SplitLines(Content(text))
    IN  \A i \in 2..Len(lines) : ~IsSeparator(lines[i])

\* C19: Segmentation size bound. Every chunk to_vector_documents(chunk_size)
\* produces has len(content) <= chunk_size, unless the chunk is one single
\* section that was not split further.
C19_SizeBound ==
    seg_pc = "done" =>
        \A i \in DOMAIN seg_chunks :
            \/ Len(Content(seg_chunks[i])) <= seg_chunk_size
            \/ SingleSection(seg_chunks[i])

\* the content is two short sections (a paragraph or list item each) with a
\* divider between them, segmented with chunk_size = 1000
TwoSectionsAroundDivider ==
    /\ seg_pc = "done"
    /\ seg_chunk_size = DefaultChunkSize
    /\ \E first, second \in {b \in BlockKinds : b.type \in {"paragraph", "bulleted_list_item"}} :
          seg_doc.content =
              RenderBlocks(<<first, [type |-> "divider", text |-> <<>>], second>>)

\* C20 as claimed: two short sections separated by a `---` line, well under
\* chunk_size = 1000 in all, give exactly 2 chunks, each shorter than 1000.
C20_TwoChunksAtDivider ==
    TwoSectionsAroundDivider =>
        /\ Len(seg_chunks) = 2
        /\ \A i \in DOMAIN seg_chunks : Len(Content(seg_chunks[i])) < DefaultChunkSize

\* C20 amended: two short sections separated by a `---` line, well under
\* chunk_size = 1000 in all, give exactly 1 chunk, shorter than 1000, which
\* holds the header, both sections and the divider line.
C20_OneChunkUnderChunkSize ==
    TwoSectionsAroundDivider =>
        /\ Len(seg_chunks) = 1
        /\ Len(Content(seg_chunks[1])) < DefaultChunkSize
        /\ seg_chunks[1] = Header(seg_doc.title, seg_doc.summary) \o seg_doc.content \o <<NL>>
        /\ \E i \in DOMAIN SplitLines(seg_chunks[1]) :
              SplitLines(seg_chunks[1])[i] = <<"-", "-", "-">>

C20_Witness ==
    /\ TwoSectionsAroundDivider
    /\ Len(seg_chunks) = 1
    /\ seg_doc.summary = Text("s")

\* C21: the segmenter never returns zero chunks. A document with empty (or
\* missing) content gives exactly one chunk, the title/summary header; every
\* non-empty content gives at least one chunk.
C21_NeverZeroChunks ==
    seg_pc = "done" =>
        /\ Len(seg_chunks) >= 1
        /\ seg_doc.content = <<>> =>
              seg_chunks = <<Header(seg_doc.title, seg_doc.summary)>>

\* a document without content was segmented into its header
C21_Witness ==
    /\ seg_pc = "done"
    /\ seg_doc.content = <<>>
    /\ seg_doc.summary = Text("s")
    /\ Len(seg_chunks) = 1

-----------------------------------------------------------------------------
\* Properties of chunk_text

\* the section the words of a chunk come from
SectionOf(chunk) == chunk[1][1]

\* C22: in chunk_text a section is handed to the token splitter only if its
\* length strictly exceeds max_input_length; a section whose length is the
\* limit or less is one chunk of the output, whole; the chunks of the output
\* are in the order of the sections (and of the words within a section).
C22_ResplitOnlyOverLimit ==
    ct_pc = "done" =>
        /\ \A i \in resplit : WordCount(text_split_by_sections[i]) > MaxInputLength
        /\ \A i \in DOMAIN text_split_by_sections :
              WordCount(text_split_by_sections[i]) <= MaxInputLength =>
                  /\ i \notin resplit
                  /\ \E p \in DOMAIN chunks_by_tokens :
                        /\ chunks_by_tokens[p] = text_split_by_sections[i]
                        /\ \A q \in DOMAIN chunks_by_tokens :
                              SectionOf(chunks_by_tokens[q]) = i => q = p
        /\ \A p, q \in DOMAIN chunks_by_tokens :
              p < q =>
                  \/ SectionOf(chunks_by_tokens[p]) < SectionOf(chunks_by_tokens[q])
                  \/ /\ SectionOf(chunks_by_tokens[p]) = SectionOf(chunks_by_tokens[q])
                     /\ chunks_by_tokens[p][1][2] < chunks_by_tokens[q][1][2]

\* a text whose first section is over the limit and was split, and whose
\* second section is exactly at the limit and was kept whole
C22_Witness ==
    /\ ct_pc = "done"
    /\ Len(text_split_by_sections) >= 2
    /\ resplit = {1}
    /\ WordCount(text_split_by_sections[2]) = MaxInputLength
    /\ chunks_by_tokens[Len(chunks_by_tokens)] = text_split_by_sections[2]

-----------------------------------------------------------------------------
\* Properties of the chunk identity

\* the chunk ids an invocation derived for its current document
ChunkIds(w) == {vector_docs[w][i].id : i \in DOMAIN vector_docs[w]}

\* both invocations loaded the same page, fetched the same content and derived
\* their chunks
SameDocumentChunked ==
    /\ \A w \in Procs : rpc[w] = "bulk_insert" /\ Fetched(w)
    /\ Doc(1).notion_id = Doc(2).notion_id
    /\ Doc(1).content = Doc(2).content

\* C23: chunk identity is deterministic. Two separate runs that each load the
\* same unchanged source document from Notion derive the same set of chunk
\* ids for it.
C23_SameChunkIdsAcrossRuns ==
    SameDocumentChunked => ChunkIds(1) = ChunkIds(2)

-----------------------------------------------------------------------------
\* Properties of the document store's write paths

\* C24: write-path failures are surfaced to the caller. A call of
\* GenericArticleCrawler.extract that returned a document returned a stored
\* one: it does not return a document as stored when its save failed.
C24_ReturnedMeansStored ==
    \A c \in Callers :
        xret[c].kind = "returned" => xret[c].doc \subseteq articles

\* C29: find-then-insert paths create at most one stored document per key.
\* With every find answered, concurrent calls of extract for one link leave
\* at most one article for that link, and concurrent calls of get_or_create
\* with one filter leave at most one user for that filter.
C29_AtMostOnePerKey ==
    ~read_failed =>
        /\ \A link \in Links : Cardinality(ArticlesWith(link)) <= 1
        /\ Cardinality(AnonymousUsers) <= 1

-----------------------------------------------------------------------------
\* Properties of the segmenter: nothing lost, nothing duplicated

RECURSIVE WithNewlines(_)
\* the lines of the content, each with its newline, joined
WithNewlines(lines) ==
    IF lines = <<>> THEN <<>> ELSE Head(lines) \o <<NL>> \o WithNewlines(Tail(lines))

\* C27: to_vector_documents loses and duplicates nothing. The texts of the
\* chunks, before stripping, joined in order are the header followed by every
\* line of the content in its order; a chunk ends where a line ends, so each
\* line is in exactly one chunk; no chunk is built from an empty line list.
C27_NothingLostOrDuplicated ==
    seg_pc = "done" =>
        /\ Join(seg_chunks) =
               Header(seg_doc.title, seg_doc.summary) \o
                   (IF seg_doc.content = <<>> THEN <<>>
                    ELSE WithNewlines(SplitLines(seg_doc.content)))
        /\ \A i \in DOMAIN seg_chunks :
              /\ seg_chunks[i] # <<>>
              /\ seg_chunks[i][Len(seg_chunks[i])] = NL

\* a content of several lines was segmented into several chunks
C27_Witness ==
    /\ seg_pc = "done"
    /\ seg_chunk_size = ChunkSize
    /\ Len(SplitLines(seg_doc.content)) >= 4
    /\ Len(seg_chunks) >= 3

-----------------------------------------------------------------------------
\* Properties of the reindex after a failed fetch

\* the loop body is past update_content for its document, the fetch of the
\* page's blocks failed, and the store holds vectors of the document
FetchFailedWithVectors(w) ==
    /\ rpc[w] \in {"delete_by_notion_id", "to_vector_documents", "bulk_insert"}
    /\ ~Fetched(w)
    /\ Matching(store, Doc(w).notion_id) # {}

\* C28: when fetching a document's content from Notion fails, no later step
\* of its reindex changes the vectors the store holds for it: they are not
\* deleted and not replaced by a header-only chunk.
C28_FetchFailureKeepsVectors ==
    [][FetchFailedWithVectors(1) =>
           Matching(store', Doc(1).notion_id) = Matching(store, Doc(1).notion_id)]_vars

-----------------------------------------------------------------------------
\* Properties of the patient analyzer

\* the state the last call returned
Resultado == CHOOSE e \in estado_actual : TRUE

\* C30: each call of procesar_nueva_revision adds exactly one entry, the new
\* review, to revisiones_historicas and at most one to eventos_adversos: after
\* n reviews processed in sequence, each call given the previous result,
\* revisiones_historicas holds exactly those n reviews in order.
C30_OneEntryPerReview ==
    (pa_pc = "idle" /\ estado_actual # {}) =>
        /\ Resultado.revisiones_historicas = revisiones
        /\ Len(Resultado.eventos_adversos) <= Len(revisiones)

====
